---- MODULE Spec2Model ----
(***************************************************************************)
(* Community Health Index (CHI) numbers: src/src/chi.rs.                   *)
(*                                                                         *)
(* impl Chi for &'static str gives a string three operations:              *)
(*   from(string)           validates length and modulus 11 check digit    *)
(*   date_of_birth(cutoff)  NaiveDate from characters 0..5                 *)
(*   gender()               parity of character 8                          *)
(* Failures are panics (assert!, unwrap, arithmetic overflow checks).      *)
(*                                                                         *)
(* A string is a sequence of Unicode scalar values; TLA+ sequences are     *)
(* 1-based, so Rust's index i is index i+1 here.                           *)
(***************************************************************************)
EXTENDS Integers, Sequences, FiniteSets

VARIABLES
    string,           \* the argument handed to Chi::from
    overflow_checks,  \* build profile: TRUE = debug (overflow panics), FALSE = release (wraps)
    pc,               \* "start" | "constructed" | "returned" | "panicked"
    self,             \* the &'static str returned by from (None before / on panic)
    sum,              \* local sum of from (NotComputed while the line was never run)
    call,             \* the last trait method invoked
    cutoff_2000,      \* argument of the last date_of_birth call
    ret,              \* value returned by the last date_of_birth / gender call
    panic             \* panic message that ended execution, NoPanic otherwise

vars == <<string, overflow_checks, pc, self, sum, call, cutoff_2000, ret, panic>>

\* ------------------------------------------------------------------ values

\* Option<T>
None == <<>>
Some(v) == <<v>>
NoPanic == "none"

\* assert! at chi.rs:29
LengthPanic == "CHI should be 10 characters long"
\* assert! at chi.rs:38-41
ChecksumPanic == "CHI last digit must pass modulus 11 test"
\* Option::unwrap on None: chars().nth(9) at chi.rs:39, from_ymd_opt at chi.rs:55
UnwrapNonePanic == "called Option::unwrap() on a None value"
\* Result::unwrap on Err: str::parse at chi.rs:47-49
UnwrapErrPanic == "called Result::unwrap() on an Err value: ParseIntError"
\* debug builds: subtraction on u8 / u32 below zero, chi.rs:34, 39, 60
OverflowPanic == "attempt to subtract with overflow"

\* enum Gender
Male == "Male"
Female == "Female"

\* ------------------------------------------------------------------ characters

\* '0' as u8
Zero == 48
\* '+' and '-' (both below '0'), ':' (the byte after '9'), U+00E9 (two bytes in UTF-8)
Plus == Zero - 5
Minus == Zero - 3
Colon == Zero + 10
EAcute == Zero + 185

\* string.len() == 10
ChiLen == 10

I32Max == 2147483647

IsDigitChar(c) == c >= Zero /\ c <= Zero + 9

\* char::len_utf8
len_utf8(c) ==
    IF c < 128 THEN 1 ELSE IF c < 2048 THEN 2 ELSE IF c < 65536 THEN 3 ELSE 4

\* mutant of len: the length in characters, chars().count()
len_in_chars(s) == Len(s)

\* str::len: the length in bytes
RECURSIVE len(_)
len(s) == IF s = <<>> THEN 0 ELSE len_utf8(Head(s)) + len(Tail(s))

\* c as u8
as_u8(c) == c % 256

\* cutoff_2000 as i32 (two's complement reinterpretation of a u32)
as_i32(n) == IF n > I32Max THEN (n - I32Max) - I32Max - 2 ELSE n

\* (c as u8 - '0' as u8) as u32: the u8 subtraction overflows below '0';
\* a build without overflow checks wraps modulo 2^8
digit_u8(c) ==
    [overflow |-> as_u8(c) < Zero, value |-> (as_u8(c) - Zero + 256) % 256]

\* (c as u32 - '0' as u32) % 2: the u32 subtraction overflows below '0'; a build
\* without overflow checks wraps modulo 2^32, which keeps the parity of c - '0'
digit_u32_mod2(c) ==
    [overflow |-> c < Zero, value |-> (c - Zero) % 2]

\* ------------------------------------------------------------------ Chi::from

\* mutant of seq: (1..=10).rev(), a tenth weight that reaches the check digit
seq_ten_weights == [k \in 1..10 |-> 11 - k]

\* mutant of seq: 2..=10 without rev()
seq_ascending == [k \in 1..9 |-> k + 1]

\* (2..=10).rev()
seq == [k \in 1..9 |-> 11 - k]

Min(a, b) == IF a < b THEN a ELSE b

\* seq.zip(string[0..10].chars()): stops at the shorter of the two
zip(ws, chars) == [k \in 1..Min(Len(ws), Len(chars)) |-> <<ws[k], chars[k]>>]

\* .map(|(n, c)| n as u32 * (c as u8 - '0' as u8) as u32)
term(pair) == pair[1] * digit_u8(pair[2]).value

RECURSIVE SumSeq(_)
SumSeq(ts) == IF ts = <<>> THEN 0 ELSE Head(ts) + SumSeq(Tail(ts))

\* let sum: u32 = ... .sum()
weighted_sum(s) ==
    LET pairs == zip(seq, s)
    IN SumSeq([k \in DOMAIN pairs |-> term(pairs[k])])

\* some mapped character makes the u8 subtraction overflow
sum_overflows(s) ==
    LET pairs == zip(seq, s)
    IN \E k \in DOMAIN pairs : digit_u8(pairs[k][2]).overflow

\* let modulus = 11 - (sum % 11)
modulus(total) == 11 - (total % 11)

\* mutant of corrected: 10 mapped to 0 as well
corrected_ten_as_zero(total) == IF modulus(total) >= 10 THEN 0 ELSE modulus(total)

\* mutant of corrected: 11 left as it is
corrected_unmapped(total) == modulus(total)

\* let corrected = if modulus == 11 { 0 } else { modulus }
corrected(total) == IF modulus(total) = 11 THEN 0 ELSE modulus(total)

\* string.chars().nth(n)
nth(s, n) == IF n + 1 <= Len(s) THEN Some(s[n + 1]) ELSE None

\* The whole of Chi::from on s in a build with (checks) or without overflow
\* checks: [panic, sum, value].
from(s, checks) ==
    IF len(s) # ChiLen
    THEN [panic |-> LengthPanic, sum |-> None, value |-> None]
    ELSE IF checks /\ sum_overflows(s)
    THEN [panic |-> OverflowPanic, sum |-> None, value |-> None]
    ELSE LET total == weighted_sum(s)
             last == nth(s, 9)
         IN IF last = None
            THEN [panic |-> UnwrapNonePanic, sum |-> Some(total), value |-> None]
            ELSE IF checks /\ digit_u8(last[1]).overflow
            THEN [panic |-> OverflowPanic, sum |-> Some(total), value |-> None]
            ELSE IF corrected(total) # digit_u8(last[1]).value
            THEN [panic |-> ChecksumPanic, sum |-> Some(total), value |-> None]
            ELSE [panic |-> NoPanic, sum |-> Some(total), value |-> Some(s)]

\* ------------------------------------------------------------------ Chi::date_of_birth

AllDigitChars(s) == \A k \in DOMAIN s : IsDigitChar(s[k])

RECURSIVE DecimalValue(_)
DecimalValue(s) ==
    IF s = <<>> THEN 0
    ELSE DecimalValue(SubSeq(s, 1, Len(s) - 1)) * 10 + (s[Len(s)] - Zero)

\* &self[a..b]: self is a value returned by from, 10 bytes that are 10
\* characters, so every byte index is a character boundary
slice(s, a, b) == SubSeq(s, a + 1, b)

\* str::parse::<u32>: an optional '+', then one or more decimal digits
parse_u32(s) ==
    LET digits == IF s # <<>> /\ s[1] = Plus THEN Tail(s) ELSE s
    IN IF digits # <<>> /\ AllDigitChars(digits)
       THEN Some(DecimalValue(digits)) ELSE None

\* str::parse::<i32>: an optional '+' or '-', then one or more decimal digits
parse_i32(s) ==
    LET signed == s # <<>> /\ s[1] \in {Plus, Minus}
        digits == IF signed THEN Tail(s) ELSE s
    IN IF digits # <<>> /\ AllDigitChars(digits)
       THEN Some(IF signed /\ s[1] = Minus THEN 0 - DecimalValue(digits)
                 ELSE DecimalValue(digits))
       ELSE None

\* chrono: proleptic Gregorian calendar
is_leap_year(year) == year % 4 = 0 /\ (year % 100 # 0 \/ year % 400 = 0)

\* mutant of days_in_month: only day <= 31 is checked
days_in_month_31(year, month) == 31

days_in_month(year, month) ==
    IF month = 2 THEN (IF is_leap_year(year) THEN 29 ELSE 28)
    ELSE IF month \in {4, 6, 9, 11} THEN 30 ELSE 31

\* NaiveDate::from_ymd_opt(year, month, day)
from_ymd_opt(year, month, day) ==
    IF month >= 1 /\ month <= 12 /\ day >= 1 /\ day <= days_in_month(year, month)
    THEN Some([year |-> year, month |-> month, day |-> day])
    ELSE None

\* mutant of year_of: >= for >
year_of_ge(year_end, cutoff) ==
    IF year_end >= as_i32(cutoff) THEN 1900 + year_end ELSE 2000 + year_end

\* if year_end > cutoff_2000 as i32 { 1900 + year_end } else { 2000 + year_end }
year_of(year_end, cutoff) ==
    IF year_end > as_i32(cutoff) THEN 1900 + year_end ELSE 2000 + year_end

\* mutant of date_of_birth: from_ymd_opt's Option is returned, not unwrapped
date_of_birth_opt(s, cutoff) ==
    LET day == parse_u32(slice(s, 0, 2))
        month == parse_u32(slice(s, 2, 4))
        year_end == parse_i32(slice(s, 4, 6))
    IN IF day = None \/ month = None \/ year_end = None
       THEN [panic |-> UnwrapErrPanic, value |-> None]
       ELSE [panic |-> NoPanic,
             value |-> from_ymd_opt(year_of(year_end[1], cutoff), month[1], day[1])]

\* The whole of date_of_birth on s: [panic, value]
date_of_birth(s, cutoff) ==
    LET day == parse_u32(slice(s, 0, 2))
        month == parse_u32(slice(s, 2, 4))
        year_end == parse_i32(slice(s, 4, 6))
    IN IF day = None \/ month = None \/ year_end = None
       THEN [panic |-> UnwrapErrPanic, value |-> None]
       ELSE LET date == from_ymd_opt(year_of(year_end[1], cutoff), month[1], day[1])
            IN IF date = None
               THEN [panic |-> UnwrapNonePanic, value |-> None]
               ELSE [panic |-> NoPanic, value |-> date]

\* ------------------------------------------------------------------ Chi::gender

\* mutant of gender: nth(9), the check digit, for nth(8)
gender_of_check_digit(s, checks) ==
    LET c == nth(s, 9)
    IN IF c = None
       THEN [panic |-> UnwrapNonePanic, value |-> None]
       ELSE IF checks /\ digit_u32_mod2(c[1]).overflow
       THEN [panic |-> OverflowPanic, value |-> None]
       ELSE IF digit_u32_mod2(c[1]).value = 0
       THEN [panic |-> NoPanic, value |-> Some(Female)]
       ELSE [panic |-> NoPanic, value |-> Some(Male)]

\* match (self.chars().nth(8).unwrap() as u32 - '0' as u32) % 2
gender(s, checks) ==
    LET c == nth(s, 8)
    IN IF c = None
       THEN [panic |-> UnwrapNonePanic, value |-> None]
       ELSE IF checks /\ digit_u32_mod2(c[1]).overflow
       THEN [panic |-> OverflowPanic, value |-> None]
       ELSE IF digit_u32_mod2(c[1]).value = 0
       THEN [panic |-> NoPanic, value |-> Some(Female)]
       ELSE [panic |-> NoPanic, value |-> Some(Male)]

\* ------------------------------------------------------------------ inputs

\* longest input, in characters
MaxLen == 11
\* largest cutoff_2000 handed to date_of_birth
MaxCutoff == 99

Digits(ds) == [k \in DOMAIN ds |-> Zero + ds[k]]

\* the strings of the unit tests (chi.rs:75, 80, 85, 105, 115)
TestInputs ==
    { Digits(<<1,8,1,1,4,3,1,2,3,2>>), Digits(<<1,3,0,4,2,3,6,3,6,6>>),
      Digits(<<1,3,0,4,4,9,6,3,6,8>>), Digits(<<1,0,0,9,7,0,1,2,3,4>>),
      Digits(<<1,0,0,9,7,0,1,2,3>>) }

Days == { <<0,0>>, <<1,0>>, <<1,3>>, <<1,8>>, <<2,9>>, <<3,0>>, <<3,1>>, <<3,2>> }
Months == { <<0,0>>, <<0,2>>, <<0,4>>, <<0,9>>, <<1,1>>, <<1,2>>, <<1,3>>, <<9,7>> }
Years == { <<0,0>>, <<0,4>>, <<2,3>>, <<2,4>>, <<4,3>>, <<4,9>>, <<7,0>>, <<9,9>> }
Seqs == { <<1,2>>, <<6,3>> }

\* ten decimal digits: a day, a month, a year, the sequence digits 1 2, the sex
\* digit 3 and any check digit
DateInputs ==
    { Digits(d \o m \o y \o <<1, 2, 3, k>>) :
        d \in Days, m \in Months, y \in Years, k \in 0..9 }

\* the first six digits of a test string, then any sequence digits, sex digit and
\* check digit
SexInputs ==
    { SubSeq(b, 1, 6) \o Digits(q \o <<g, k>>) :
        b \in { t \in TestInputs : Len(t) = ChiLen }, q \in Seqs, g \in 0..9, k \in 0..9 }

NonDigits == { Plus, Minus, Colon, EAcute }

\* a test string with one character replaced by a non-digit and any last character
NonDigitInputs ==
    { [[b EXCEPT ![i] = c] EXCEPT ![Len(b)] = k] :
        b \in TestInputs, i \in 1..9, c \in NonDigits,
        k \in { Zero + n : n \in 0..9 } \cup NonDigits }

\* the first n characters of b, b, b, ...
Resize(b, n) == [k \in 1..n |-> b[((k - 1) % Len(b)) + 1]]

\* strings of 0..MaxLen characters, some with a two-byte character
LengthInputs ==
    { Resize(b, n) : b \in TestInputs, n \in 0..MaxLen }
    \cup { [Resize(b, n) EXCEPT ![i] = EAcute] :
             b \in TestInputs, n \in (ChiLen - 2)..MaxLen, i \in 1..2 }

Inputs == DateInputs \cup SexInputs \cup NonDigitInputs \cup LengthInputs

Cutoffs == 0..MaxCutoff

\* ------------------------------------------------------------------ state machine

Init ==
    /\ string \in Inputs
    /\ overflow_checks \in BOOLEAN
    /\ pc = "start"
    /\ self = None
    /\ sum = None
    /\ call = "none"
    /\ cutoff_2000 = None
    /\ ret = None
    /\ panic = NoPanic

\* let x: &'static str = Chi::from(string)
From ==
    /\ pc = "start"
    /\ LET r == from(string, overflow_checks)
       IN /\ pc' = IF r.panic = NoPanic THEN "constructed" ELSE "panicked"
          /\ self' = r.value
          /\ sum' = r.sum
          /\ panic' = r.panic
    /\ call' = "from"
    /\ UNCHANGED <<string, overflow_checks, cutoff_2000, ret>>

\* The methods take &self and change nothing, so a call after another call
\* starts from the same self as the first: a run makes one call on the value
\* it constructed.

\* x.date_of_birth(cutoff)
DateOfBirth(cutoff) ==
    /\ pc = "constructed"
    /\ LET r == date_of_birth(self[1], cutoff)
       IN /\ pc' = IF r.panic = NoPanic THEN "returned" ELSE "panicked"
          /\ ret' = r.value
          /\ panic' = r.panic
    /\ call' = "date_of_birth"
    /\ cutoff_2000' = Some(cutoff)
    /\ UNCHANGED <<string, overflow_checks, self, sum>>

\* x.gender()
Gender ==
    /\ pc = "constructed"
    /\ LET r == gender(self[1], overflow_checks)
       IN /\ pc' = IF r.panic = NoPanic THEN "returned" ELSE "panicked"
          /\ ret' = r.value
          /\ panic' = r.panic
    /\ call' = "gender"
    /\ cutoff_2000' = None
    /\ UNCHANGED <<string, overflow_checks, self, sum>>

Next ==
    \/ From
    \/ \E cutoff \in Cutoffs : DateOfBirth(cutoff)
    \/ Gender

Spec == Init /\ [][Next]_vars

\* ------------------------------------------------------------------ the claims' vocabulary

\* s is ten decimal digits
IsTenDigits(s) == Len(s) = 10 /\ \A k \in 1..10 : s[k] \in Zero..(Zero + 9)

\* digit i (0-based) of a string of digits
D(s, i) == s[i + 1] - Zero

\* sum over i in 0..8 of (10 - i) * d[i]
SpecWeightedSum(s) ==
    10 * D(s, 0) + 9 * D(s, 1) + 8 * D(s, 2) + 7 * D(s, 3) + 6 * D(s, 4)
    + 5 * D(s, 5) + 4 * D(s, 6) + 3 * D(s, 7) + 2 * D(s, 8)

\* 11 - (s mod 11), with 11 replaced by 0
SpecExpected(s) ==
    LET e == 11 - (SpecWeightedSum(s) % 11) IN IF e = 11 THEN 0 ELSE e

SpecDay(s) == 10 * D(s, 0) + D(s, 1)
SpecMonth(s) == 10 * D(s, 2) + D(s, 3)
SpecYearSuffix(s) == 10 * D(s, 4) + D(s, 5)

SpecYear(s, cutoff) ==
    IF SpecYearSuffix(s) > cutoff THEN 1900 + SpecYearSuffix(s)
    ELSE 2000 + SpecYearSuffix(s)

MonthLengths == <<31, 28, 31, 30, 31, 30, 31, 31, 30, 31, 30, 31>>

SpecValidDate(year, month, day) ==
    /\ month \in 1..12
    /\ day >= 1
    /\ day <= IF month = 2 /\ year % 4 = 0 /\ (year % 100 # 0 \/ year % 400 = 0)
              THEN 29 ELSE MonthLengths[month]

\* the UTF-8 length of s: one byte per character, and one more for each
\* character from U+0080, from U+0800 and from U+10000
ByteLength(s) ==
    Len(s) + Cardinality({k \in DOMAIN s : s[k] >= 128})
           + Cardinality({k \in DOMAIN s : s[k] >= 2048})
           + Cardinality({k \in DOMAIN s : s[k] >= 65536})

FromActed == call # "none"

\* ------------------------------------------------------------------ C1

\* C1: for every string of ten decimal digits whose digit 9 equals the expected
\* check digit, from succeeds and returns the input string, and the weighted sum
\* it computed is that of digits 0..8 alone.
C1_ValidAccepted ==
    (FromActed /\ IsTenDigits(string) /\ D(string, 9) = SpecExpected(string))
        => /\ self = Some(string)
           /\ sum = Some(SpecWeightedSum(string))
           /\ (call = "from" => pc = "constructed" /\ panic = NoPanic)

\* from has returned a ten-digit string with a non-zero check digit
C1_Witness ==
    /\ call = "from" /\ pc = "constructed"
    /\ IsTenDigits(string) /\ D(string, 9) = SpecExpected(string)
    /\ D(string, 9) # 0
    /\ self = Some(string)

\* ------------------------------------------------------------------ C2

\* C2: for every string of ten decimal digits whose last digit differs from the
\* expected check digit, from fails with the 'must pass modulus 11 test'
\* assertion and returns nothing.
C2_ChecksumRejected ==
    (FromActed /\ IsTenDigits(string) /\ D(string, 9) # SpecExpected(string))
        => /\ pc = "panicked"
           /\ panic = ChecksumPanic
           /\ self = None
           /\ call = "from"

\* from has rejected ten digits whose weighted sum is 1 modulo 11 and whose
\* last digit is 0
C2_Witness ==
    /\ call = "from" /\ panic = ChecksumPanic
    /\ IsTenDigits(string)
    /\ SpecWeightedSum(string) % 11 = 1 /\ D(string, 9) = 0

\* ------------------------------------------------------------------ C3

C5_GenderParity ==
    (call = "gender")
        => /\ pc = "returned" /\ panic = NoPanic
           /\ ret \in {Some(Female), Some(Male)}
           /\ (IsDigitChar(self[1][9]) /\ D(self[1], 8) % 2 = 0 => ret = Some(Female))
           /\ (IsDigitChar(self[1][9]) /\ D(self[1], 8) % 2 = 1 => ret = Some(Male))

\* gender has returned Male for a digit 9 at position 8
C5_Witness ==
    /\ call = "gender" /\ pc = "returned"
    /\ IsTenDigits(self[1]) /\ D(self[1], 8) = 9
    /\ ret = Some(Male)

\* ------------------------------------------------------------------ C6

\* C6: for every validated identifier of ten digits whose day and month are not
\* a valid day and month of the derived year, date_of_birth fails with the
\* unwrap of from_ymd_opt's None and returns no date, whatever the cutoff.
C6_InvalidDatePanics ==
    (/\ call = "date_of_birth"
     /\ IsTenDigits(self[1])
     /\ ~SpecValidDate(SpecYear(self[1], cutoff_2000[1]), SpecMonth(self[1]),
                       SpecDay(self[1])))
        => /\ pc = "panicked"
           /\ panic = UnwrapNonePanic
           /\ ret = None

\* date_of_birth has panicked on day 31 of a 30-day month
C6_Witness ==
    /\ call = "date_of_birth" /\ pc = "panicked"
    /\ IsTenDigits(self[1])
    /\ SpecDay(self[1]) = 31 /\ SpecMonth(self[1]) = 4
    /\ panic = UnwrapNonePanic

\* ------------------------------------------------------------------ C7

\* the string of tests::invalid_date_of_birth
InvalidDateTestInput == Digits(<<1,0,0,9,7,0,1,2,3,4>>)

\* C7 as stated: from applied to "1009701234" succeeds, and the failure of the
\* run comes from date_of_birth.
C7_Original ==
    (string = InvalidDateTestInput /\ FromActed)
        => /\ self = Some(string)
           /\ (pc = "panicked" => call = "date_of_birth")

\* C7 amended: from applied to "1009701234" fails with the modulus 11 assertion
\* (the weighted sum is 131, so the expected check digit is 1 and not 4);
\* date_of_birth is never reached.
C7_ConstructorRejects ==
    (string = InvalidDateTestInput /\ FromActed)
        => /\ pc = "panicked"
           /\ call = "from"
           /\ panic = ChecksumPanic
           /\ sum = Some(131)
           /\ corrected(sum[1]) = 1
           /\ self = None
           /\ ret = None

\* from has panicked on "1009701234"
C7_Witness ==
    /\ string = InvalidDateTestInput
    /\ call = "from" /\ pc = "panicked"
    /\ panic = ChecksumPanic

\* ------------------------------------------------------------------ C8

\* C8: every value from returns is exactly 10 characters, each an ASCII decimal
\* digit.
C8_OnlyDigitsAccepted ==
    (self # None) => IsTenDigits(self[1])

\* ------------------------------------------------------------------ C9

\* ten digits that fail one of the three conditions of the error taxonomy
WrongLength == ByteLength(string) # 10
ChecksumMismatch == IsTenDigits(string) /\ D(string, 9) # SpecExpected(string)
InvalidDate ==
    /\ call = "date_of_birth"
    /\ IsTenDigits(self[1])
    /\ ~SpecValidDate(SpecYear(self[1], cutoff_2000[1]), SpecMonth(self[1]),
                      SpecDay(self[1]))

AcceptedCompletions(s) ==
    { d \in 0..9 :
        from(SubSeq(s, 1, 9) \o <<Zero + d>>, overflow_checks).panic = NoPanic }

\* C10: for every 9-digit prefix from accepts at most one of the ten check
\* digits: none when the weighted sum of the prefix is 1 modulo 11 (the
\* expected value is then 10), exactly one otherwise; and a string from has
\* accepted ends in that digit.
C10_AtMostOneCompletion ==
    (call = "from" /\ IsTenDigits(string))
        => /\ Cardinality(AcceptedCompletions(string))
                = (IF SpecWeightedSum(string) % 11 = 1 THEN 0 ELSE 1)
           /\ (SpecWeightedSum(string) % 11 = 1 => modulus(sum[1]) = 10)
           /\ (pc = "constructed" => AcceptedCompletions(string) = {D(string, 9)})

\* from has rejected a completion of a prefix whose weighted sum is 1 modulo 11
C10_Witness ==
    /\ call = "from" /\ IsTenDigits(string)
    /\ SpecWeightedSum(string) % 11 = 1
    /\ pc = "panicked"
    /\ AcceptedCompletions(string) = {}

====
